---- MODULE Spec2Model ----
(***************************************************************************)
(* Model of package httpapitest (src/httpapitest.go): the Request test     *)
(* helper, its Option constructors and the streaming comparator            *)
(* readerContentEqual.                                                     *)
(*                                                                         *)
(* One behaviour is one test: the options passed to Request are fixed in   *)
(* the initial state, Request runs statement by statement, and the readers *)
(* (the response body, the expected stream) answer each Read with any      *)
(* result the io.Reader contract allows.                                   *)
(***************************************************************************)
EXTENDS Integers, Sequences, FiniteSets, TLC

VARIABLES
    opts,       \* the opts ...Option argument of Request
    i,          \* index of the next option the loop of Request applies
    o,          \* o := new(options), the configuration of this call
    heap,       \* http.Header maps by reference: the caller's and the made one
    pc,         \* position of the call in Request / readerContentEqual
    call,       \* number of the current Request invocation
    sent,       \* requests handed to client.Do, one entry per invocation
    resp,       \* the *http.Response client.Do returned (status, header)
    hdrTodo,    \* keys the range over o.responseHeaders has still to visit
    errors,     \* t.Errorf reports of this invocation, in order
    fatals,     \* t.Fatal / t.Fatalf reports of this invocation
    r1,         \* resp.Body: [data, pos]
    r2,         \* the caller's expected-response reader: [data, pos]
    buf1,       \* buf1 of readerContentEqual (the slice: its length matters)
    buf2,       \* buf2 of readerContentEqual
    n1,         \* n1 of the current iteration
    err,        \* the single err variable of readerContentEqual
    eof1,       \* history: the r1.Read of this iteration returned io.EOF
    cursor,     \* cursor of readerContentEqual
    zeroReads,  \* history: reads that returned (0, nil) into a non-empty buffer
    target,     \* the value behind the pointer given to UnmarshalJSONResponse
    captured,   \* the slice behind the pointer given to PutResponseBody
    checks,     \* history: the status / header comparisons Request evaluated
    bodyActs,   \* history: the body checks Request entered, in order
    closed      \* resp.Body.Close() has run (the deferred call)

vars == <<opts, i, o, heap, pc, call, sent, resp, hdrTodo, errors, fatals,
          r1, r2, buf1, buf2, n1, err, eof1, cursor, zeroReads, target,
          captured, checks, bodyActs, closed>>

(***************************************************************************)
(* Bounds of the model.                                                    *)
(***************************************************************************)
\* const bufSize = 128 in readerContentEqual; the model scales the buffer
\* down so that streams longer than one buffer stay small.
bufSize == 2
\* longest stream handed to readerContentEqual on its own
MaxLen == 3
\* (0, nil) reads into a non-empty buffer a reader may make in one comparison
MaxZeroReads == 1

Nil == "nil"

Min(a, b) == IF a <= b THEN a ELSE b

RECURSIVE SeqsUpTo(_, _)
SeqsUpTo(S, n) ==
    IF n = 0 THEN {<<>>}
    ELSE LET shorter == SeqsUpTo(S, n - 1)
         IN  shorter \cup {Append(s, x) : s \in {t \in shorter : Len(t) = n - 1}, x \in S}

IsPrefix(s, t) == Len(s) <= Len(t) /\ SubSeq(t, 1, Len(s)) = s
IsStrictPrefix(s, t) == Len(s) < Len(t) /\ IsPrefix(s, t)

(***************************************************************************)
(* io.Reader.  A reader is [data, pos]; Read(p) with len(p) = L answers    *)
(* (n, err) with 0 <= n <= min(L, unread).  io.EOF is only returned when   *)
(* the read leaves nothing unread; a reader with nothing left and room in  *)
(* p must answer io.EOF or an error; (0, nil) with data left and room in p *)
(* is allowed by io.Reader but bounded here by MaxZeroReads.               *)
(***************************************************************************)
Reader(data) == [data |-> data, pos |-> 0]

Unread(r) == Len(r.data) - r.pos

Consumed(r) == SubSeq(r.data, 1, r.pos)

ReadResults(r, L, zeros) ==
    {res \in [n : 0..Min(L, Unread(r)), err : {"nil", "EOF", "other"}] :
        /\ res.err = "EOF" => res.n = Unread(r)
        /\ (res.err = "nil" /\ res.n = 0 /\ L > 0) =>
               (Unread(r) > 0 /\ zeros < MaxZeroReads)}

\* the bytes a Read of n bytes copies into p[:n]
Chunk(r, n) == SubSeq(r.data, r.pos + 1, r.pos + n)

Advance(r, n) == [r EXCEPT !.pos = r.pos + n]

IsZeroRead(res, L) == res.err = "nil" /\ res.n = 0 /\ L > 0

(***************************************************************************)
(* testing.TB: Errorf records and goes on, Fatal/Fatalf records and stops  *)
(* the goroutine.                                                          *)
(***************************************************************************)
Errorf(report) == errors' = Append(errors, report)

Fatal(report) == fatals' = Append(fatals, report)

(***************************************************************************)
(* readerContentEqual(t, r1, r2), one action per statement group.          *)
(***************************************************************************)
\* buf1 := make([]byte, bufSize); buf2 := make([]byte, bufSize); var cursor int
ZeroBuf == [k \in 1..bufSize |-> "0"]

\* n1, err := r1.Read(buf1); buf1 = buf1[:n1]; a non-EOF error is fatal
ReadActual ==
    /\ pc = "cmpRead1"
    /\ \E res \in ReadResults(r1, Len(buf1), zeroReads) :
        /\ n1' = res.n
        /\ err' = res.err
        /\ eof1' = (res.err = "EOF")
        /\ buf1' = Chunk(r1, res.n)
        /\ r1' = Advance(r1, res.n)
        /\ zeroReads' = IF IsZeroRead(res, Len(buf1)) THEN zeroReads + 1 ELSE zeroReads
        /\ IF res.err = "other"
           THEN /\ Fatal(<<"read input data", cursor>>)
                /\ pc' = "fatal"
                /\ closed' = TRUE
           ELSE /\ pc' = "cmpRead2"
                /\ UNCHANGED <<fatals, closed>>
    /\ UNCHANGED <<opts, i, o, heap, call, sent, resp, hdrTodo, errors, r2, buf2,
                   cursor, target, captured, checks, bodyActs>>

\* n2, err := r2.Read(buf2); buf2 = buf2[:n2]; a non-EOF error is fatal.
\* The assignment overwrites the err of the r1 read.
ReadExpected ==
    /\ pc = "cmpRead2"
    /\ \E res \in ReadResults(r2, Len(buf2), zeroReads) :
        /\ err' = res.err
        /\ buf2' = Chunk(r2, res.n)
        /\ r2' = Advance(r2, res.n)
        /\ zeroReads' = IF IsZeroRead(res, Len(buf2)) THEN zeroReads + 1 ELSE zeroReads
        /\ IF res.err = "other"
           THEN /\ Fatal(<<"read validation data", cursor>>)
                /\ pc' = "fatal"
                /\ closed' = TRUE
           ELSE /\ pc' = "cmpCompare"
                /\ UNCHANGED <<fatals, closed>>
    /\ UNCHANGED <<opts, i, o, heap, call, sent, resp, hdrTodo, errors, r1, buf1,
                   n1, eof1, cursor, target, captured, checks, bodyActs>>

\* variant: the loop breaks on the end-of-stream of the actual stream
LoopBreaksBroken == eof1

\* the condition of "if err == io.EOF { break }": err is the one the read of
\* r2 assigned last
LoopBreaks == err = "EOF"

\* variant: the cursor advances by the size of the buffer, not by the bytes read
NextCursorBroken == cursor + bufSize

\* cursor += n1
NextCursor == cursor + n1

\* if !bytes.Equal(buf1, buf2) { t.Errorf(...); return }
\* if err == io.EOF { break }
\* cursor += n1
CompareChunks ==
    /\ pc = "cmpCompare"
    /\ IF buf1 # buf2
       THEN /\ Errorf(<<"data not equal", cursor, buf1, buf2>>)
            /\ pc' = "done"
            /\ closed' = TRUE
            /\ UNCHANGED cursor
       ELSE IF LoopBreaks
       THEN /\ pc' = "done"
            /\ closed' = TRUE
            /\ UNCHANGED <<errors, cursor>>
       ELSE /\ cursor' = NextCursor
            /\ pc' = "cmpRead1"
            /\ UNCHANGED <<errors, closed>>
    /\ UNCHANGED <<opts, i, o, heap, call, sent, resp, hdrTodo, fatals, r1, r2,
                   buf1, buf2, n1, err, eof1, zeroReads, target, captured, checks,
                   bodyActs>>

(***************************************************************************)
(* http.Header: a map from key to the values under it.  Add, Set and Get   *)
(* canonicalise the key (textproto.CanonicalMIMEHeaderKey); a map literal  *)
(* of the caller is used as written.                                       *)
(***************************************************************************)
CanonicalKey(key) == IF key = "k1" THEN "K1" ELSE key

EmptyHeader == [k \in {} |-> <<>>]

HeaderAdd(h, key, value) ==
    LET k == CanonicalKey(key)
    IN  [x \in DOMAIN h \cup {k} |->
            IF x = k
            THEN (IF k \in DOMAIN h THEN Append(h[k], value) ELSE <<value>>)
            ELSE h[x]]

HeaderSet(h, key, value) ==
    LET k == CanonicalKey(key)
    IN  [x \in DOMAIN h \cup {k} |-> IF x = k THEN <<value>> ELSE h[x]]

HeaderGet(h, key) ==
    LET k == CanonicalKey(key)
    IN  IF k \in DOMAIN h /\ Len(h[k]) > 0 THEN h[k][1] ELSE ""

(***************************************************************************)
(* encoding/json and bytes.TrimSpace over the bytes of the model: "a" and  *)
(* "b" are the encodings of the values "va" and "vb", " " is white space,  *)
(* the value "bad" has no encoding (json.Marshal returns an error).        *)
(***************************************************************************)
JSONMarshal(v) ==
    CASE v = "va" -> [err |-> Nil, data |-> <<"a">>]
      [] v = "vb" -> [err |-> Nil, data |-> <<"b">>]
      [] OTHER    -> [err |-> "json: unsupported type", data |-> <<>>]

RECURSIVE TrimLeft(_)
TrimLeft(s) == IF s # <<>> /\ Head(s) = " " THEN TrimLeft(Tail(s)) ELSE s

RECURSIVE TrimRight(_)
TrimRight(s) ==
    IF s # <<>> /\ s[Len(s)] = " " THEN TrimRight(SubSeq(s, 1, Len(s) - 1)) ELSE s

TrimSpace(s) == TrimRight(TrimLeft(s))

\* json.NewDecoder(r).Decode(&v): white space is skipped and the first value
\* is decoded; no value before the end of the input is an error.
JSONDecode(s) ==
    LET t == TrimLeft(s)
    IN  IF t = <<>> THEN [err |-> "EOF", value |-> Nil]
        ELSE IF Head(t) = "a" THEN [err |-> Nil, value |-> "va"]
        ELSE IF Head(t) = "b" THEN [err |-> Nil, value |-> "vb"]
        ELSE [err |-> "invalid character", value |-> Nil]

(***************************************************************************)
(* Options.  An Option value is the closure an option constructor returns; *)
(* the record keeps the constructor's name and its arguments.              *)
(***************************************************************************)
Opt(kind, key, val, code) == [kind |-> kind, key |-> key, val |-> val, code |-> code]

WithContext(ctx) == Opt("WithContext", "", ctx, 0)
WithRequestBody(body) == Opt("WithRequestBody", "", body, 0)
WithJSONRequestBody(r) == Opt("WithJSONRequestBody", "", r, 0)
WithMultipartRequest(body, length, filename) == Opt("WithMultipartRequest", filename, body, length)
WithRequestHeader(key, value) == Opt("WithRequestHeader", key, value, 0)
WithRequestHeaders(h) == Opt("WithRequestHeaders", "", h, 0)
ExpectStatus(code) == Opt("ExpectStatus", "", "", code)
ExpectResponseHeader(key, value) == Opt("ExpectResponseHeader", key, value, 0)
ExpectedResponse(r) == Opt("ExpectedResponse", "", r, 0)
ExpectedJSONResponse(response) == Opt("ExpectedJSONResponse", "", response, 0)
UnmarshalJSONResponse(response) == Opt("UnmarshalJSONResponse", "", response, 0)
PutResponseBody(b) == Opt("PutResponseBody", "", b, 0)
ExpectNoResponseBody == Opt("ExpectNoResponseBody", "", "", 0)

\* type options struct, as new(options) leaves it
NewOptions ==
    [ctx                  |-> Nil,
     responseCode         |-> 0,
     requestBody          |-> [kind |-> "nil", data |-> <<>>, boundary |-> "", part |-> {}],
     requestHeaders       |-> Nil,
     responseHeaders      |-> EmptyHeader,
     expectedResponse     |-> Nil,
     expectedJSONResponse |-> Nil,
     unmarshalResponse    |-> Nil,
     responseBody         |-> Nil,
     noResponseBody       |-> FALSE]

\* the bytes of the request-body readers a caller passes; reading "failing"
\* returns an error
ReaderBytes(body) == IF body = "raw" THEN <<"b">> ELSE <<>>

\* the result of applying an option: the configuration, the header maps and
\* the error the closure returns
Applied(cfg, hp, e) == [o |-> cfg, heap |-> hp, err |-> e]

ApplyWithJSONRequestBody(cfg, hp, r) ==
    LET b == JSONMarshal(r)
    IN  IF b.err # Nil
        THEN Applied(cfg, hp, "json encode request body")
        ELSE Applied([cfg EXCEPT !.requestBody =
                        [kind |-> "json", data |-> b.data, boundary |-> "", part |-> {}]],
                     hp, Nil)

\* o.requestHeaders after "if o.requestHeaders == nil { o.requestHeaders = make(http.Header) }"
MadeRef(cfg) == IF cfg.requestHeaders = Nil THEN "M" ELSE cfg.requestHeaders

MadeHeap(cfg, hp) ==
    IF cfg.requestHeaders = Nil THEN [hp EXCEPT !["M"] = EmptyHeader] ELSE hp

ApplyWithMultipartRequest(cfg, hp, body, length, filename, boundary) ==
    IF body = "failing"
    THEN Applied(cfg, hp, "copy file data to multipart part")
    ELSE LET ref  == MadeRef(cfg)
             made == MadeHeap(cfg, hp)
             part == (IF filename # "" THEN {"Content-Disposition"} ELSE {})
                     \cup {"Content-Type"}
                     \cup (IF length > 0 THEN {"Content-Length"} ELSE {})
         IN  Applied([cfg EXCEPT !.requestBody = [kind |-> "multipart",
                                                  data |-> ReaderBytes(body),
                                                  boundary |-> boundary,
                                                  part |-> part],
                                 !.requestHeaders = ref],
                     [made EXCEPT ![ref] = HeaderSet(made[ref], "Content-Type", boundary)],
                     Nil)

\* variant: Header.Set in place of Header.Add
ApplyWithRequestHeaderBroken(cfg, hp, key, value) ==
    LET ref  == MadeRef(cfg)
        made == MadeHeap(cfg, hp)
    IN  Applied([cfg EXCEPT !.requestHeaders = ref],
                [made EXCEPT ![ref] = HeaderSet(made[ref], key, value)], Nil)

\* o.requestHeaders.Add(key, value), on a made map when there is none
ApplyWithRequestHeader(cfg, hp, key, value) ==
    LET ref  == MadeRef(cfg)
        made == MadeHeap(cfg, hp)
    IN  Applied([cfg EXCEPT !.requestHeaders = ref],
                [made EXCEPT ![ref] = HeaderAdd(made[ref], key, value)], Nil)

ApplyExpectResponseHeader(cfg, hp, key, value) ==
    Applied([cfg EXCEPT !.responseHeaders = HeaderAdd(cfg.responseHeaders, key, value)],
            hp, Nil)

\* func (f optionFunc) apply(r *options) error { return f(r) }
apply(opt, cfg, hp, boundary) ==
    CASE opt.kind = "WithContext" ->
            Applied([cfg EXCEPT !.ctx = opt.val], hp, Nil)
      [] opt.kind = "WithRequestBody" ->
            Applied([cfg EXCEPT !.requestBody =
                        IF opt.val = Nil
                        THEN NewOptions.requestBody
                        ELSE [kind |-> opt.val, data |-> ReaderBytes(opt.val),
                              boundary |-> "", part |-> {}]],
                    hp, Nil)
      [] opt.kind = "WithJSONRequestBody" ->
            ApplyWithJSONRequestBody(cfg, hp, opt.val)
      [] opt.kind = "WithMultipartRequest" ->
            ApplyWithMultipartRequest(cfg, hp, opt.val, opt.code, opt.key, boundary)
      [] opt.kind = "WithRequestHeader" ->
            ApplyWithRequestHeader(cfg, hp, opt.key, opt.val)
      [] opt.kind = "WithRequestHeaders" ->
            Applied([cfg EXCEPT !.requestHeaders = opt.val], hp, Nil)
      [] opt.kind = "ExpectStatus" ->
            Applied([cfg EXCEPT !.responseCode = opt.code], hp, Nil)
      [] opt.kind = "ExpectResponseHeader" ->
            ApplyExpectResponseHeader(cfg, hp, opt.key, opt.val)
      [] opt.kind = "ExpectedResponse" ->
            Applied([cfg EXCEPT !.expectedResponse = opt.val], hp, Nil)
      [] opt.kind = "ExpectedJSONResponse" ->
            Applied([cfg EXCEPT !.expectedJSONResponse = opt.val], hp, Nil)
      [] opt.kind = "UnmarshalJSONResponse" ->
            Applied([cfg EXCEPT !.unmarshalResponse = opt.val], hp, Nil)
      [] opt.kind = "PutResponseBody" ->
            Applied([cfg EXCEPT !.responseBody = opt.val], hp, Nil)
      [] opt.kind = "ExpectNoResponseBody" ->
            Applied([cfg EXCEPT !.noResponseBody = TRUE], hp, Nil)

(***************************************************************************)
(* Request(t, client, method, url, opts...), one action per statement      *)
(* group.  t.Fatal ends the call: pc = "fatal" has no successor in the     *)
(* same invocation.                                                        *)
(***************************************************************************)
cmpVars == <<buf1, buf2, n1, err, eof1, cursor, zeroReads>>

\* the boundaries multipart.NewWriter may draw (it draws one at random)
Boundaries == {"bnd1", "bnd2"}

\* variant: the options are taken last to first
CurrentOptionBroken == opts[Len(opts) - i + 1]

\* opt of "for _, opt := range opts"
CurrentOption == opts[i]

\* for _, opt := range opts { if err := opt.apply(o); err != nil { t.Fatal(err) } }
ApplyOption ==
    /\ pc = "opts"
    /\ i <= Len(opts)
    /\ \E boundary \in Boundaries :
        LET r == apply(CurrentOption, o, heap, boundary)
        IN  IF r.err # Nil
            THEN /\ Fatal(<<"option", r.err>>)
                 /\ pc' = "fatal"
                 /\ UNCHANGED <<i, o, heap>>
            ELSE /\ o' = r.o
                 /\ heap' = r.heap
                 /\ i' = i + 1
                 /\ UNCHANGED <<pc, fatals>>
    /\ UNCHANGED <<opts, call, sent, resp, hdrTodo, errors, r1, r2, cmpVars,
                   target, captured, checks, bodyActs, closed>>

\* req, err := http.NewRequest(method, url, o.requestBody): the method or the
\* url of the caller may be invalid
NewRequest ==
    /\ pc = "opts"
    /\ i > Len(opts)
    /\ \E valid \in BOOLEAN :
        IF valid
        THEN /\ pc' = "do"
             /\ UNCHANGED fatals
        ELSE /\ Fatal(<<"http.NewRequest", "invalid method or url">>)
             /\ pc' = "fatal"
    /\ UNCHANGED <<opts, i, o, heap, call, sent, resp, hdrTodo, errors, r1, r2,
                   cmpVars, target, captured, checks, bodyActs, closed>>

\* the handlers a test may serve: status, response header, body
Server(status, header, body) == [status |-> status, header |-> header, body |-> body]

Servers ==
    {Server(200, EmptyHeader, <<>>),
     Server(400, "K1" :> <<"x">>, <<"a">>),
     Server(200, "K1" :> <<"y", "x">>, <<"a", " ">>),
     Server(200, ("K1" :> <<"x">>) @@ ("K2" :> <<"x">>), <<"b", "a">>)}

NoResponse == [status |-> 0, header |-> EmptyHeader]

\* req.Header = o.requestHeaders; req = req.WithContext(o.ctx)
RequestOf(cfg, hp) ==
    [header |-> IF cfg.requestHeaders = Nil THEN EmptyHeader ELSE hp[cfg.requestHeaders],
     body   |-> cfg.requestBody,
     ctx    |-> cfg.ctx]

\* what client.Do(req) may return: with a canceled context the error
\* "context canceled", otherwise a transport error or a server's response
DoResults(cfg) ==
    IF cfg.ctx = "canceled"
    THEN {[err |-> "context canceled", server |-> Server(0, EmptyHeader, <<>>)]}
    ELSE {[err |-> "connection refused", server |-> Server(0, EmptyHeader, <<>>)]}
         \cup {[err |-> Nil, server |-> s] : s \in Servers}

\* variant: the error of client.Do is ignored
DoFailedBroken(res) == FALSE

\* the condition of "if err != nil { t.Fatal(err) }" after client.Do
DoFailed(res) == res.err # Nil

\* resp, err := client.Do(req); if err != nil { t.Fatal(err) }; defer resp.Body.Close()
Do ==
    /\ pc = "do"
    /\ sent' = Append(sent, RequestOf(o, heap))
    /\ \E res \in DoResults(o) :
        IF DoFailed(res)
        THEN /\ Fatal(<<"client.Do", res.err>>)
             /\ pc' = "fatal"
             /\ UNCHANGED <<resp, r1>>
        ELSE /\ resp' = [status |-> res.server.status, header |-> res.server.header]
             /\ r1' = Reader(res.server.body)
             /\ pc' = "status"
             /\ UNCHANGED fatals
    /\ UNCHANGED <<opts, i, o, heap, call, hdrTodo, errors, r2, cmpVars, target,
                   captured, checks, bodyActs, closed>>

\* if o.responseCode != 0 { if resp.StatusCode != o.responseCode {
StatusMismatch(cfg, rsp) == cfg.responseCode # 0 /\ rsp.status # cfg.responseCode

\* variant: a status mismatch ends the call
AfterStatusBroken(mismatch) == IF mismatch THEN "done" ELSE "headers"

\* where Request goes on after the status check: t.Errorf returns, so the
\* header loop follows with or without a mismatch
AfterStatus(mismatch) == "headers"

CheckStatus ==
    /\ pc = "status"
    /\ checks' = IF o.responseCode # 0 THEN checks \cup {<<"status">>} ELSE checks
    /\ IF StatusMismatch(o, resp)
       THEN Errorf(<<"status", resp.status, o.responseCode>>)
       ELSE UNCHANGED errors
    /\ pc' = AfterStatus(StatusMismatch(o, resp))
    /\ hdrTodo' = DOMAIN o.responseHeaders
    /\ UNCHANGED <<opts, i, o, heap, call, sent, resp, fatals, r1, r2, cmpVars,
                   target, captured, bodyActs, closed>>

\* want := o.responseHeaders.Get(key)
WantHeader(cfg, key) == HeaderGet(cfg.responseHeaders, key)

\* for key := range o.responseHeaders { ... }: one iteration; the range
\* visits the keys of the map in any order
CheckHeader ==
    /\ pc = "headers"
    /\ \E key \in hdrTodo :
        LET want == WantHeader(o, key)
            got  == HeaderGet(resp.header, key)
        IN  /\ IF got # want
               THEN Errorf(<<"header", key, got, want>>)
               ELSE UNCHANGED errors
            /\ checks' = checks \cup {<<"header", key>>}
            /\ hdrTodo' = hdrTodo \ {key}
    /\ UNCHANGED <<opts, i, o, heap, pc, call, sent, resp, fatals, r1, r2, cmpVars,
                   target, captured, bodyActs, closed>>

\* variant: the JSON comparison is tested before the stream comparison
BodyCheckBroken(cfg) ==
    IF cfg.expectedJSONResponse # Nil THEN "json"
    ELSE IF cfg.expectedResponse # Nil THEN "compare"
    ELSE IF cfg.unmarshalResponse # Nil THEN "decode"
    ELSE IF cfg.responseBody # Nil THEN "capture"
    ELSE IF cfg.noResponseBody THEN "empty"
    ELSE "none"

\* the chain of "if o.<field> != nil { ...; return }" that follows the header loop
BodyCheck(cfg) ==
    IF cfg.expectedResponse # Nil THEN "compare"
    ELSE IF cfg.expectedJSONResponse # Nil THEN "json"
    ELSE IF cfg.unmarshalResponse # Nil THEN "decode"
    ELSE IF cfg.responseBody # Nil THEN "capture"
    ELSE IF cfg.noResponseBody THEN "empty"
    ELSE "none"

AtBody(check) == pc = "headers" /\ hdrTodo = {} /\ BodyCheck(o) = check

\* io.ReadAll(r): everything unread, or an error after part of it
ReadAll(r) ==
    {[err |-> Nil, data |-> SubSeq(r.data, r.pos + 1, Len(r.data)), pos |-> Len(r.data)]}
    \cup {[err |-> "read error", data |-> SubSeq(r.data, r.pos + 1, p), pos |-> p] :
            p \in r.pos..Len(r.data)}

\* readerContentEqual(t, resp.Body, o.expectedResponse); return
CompareBody ==
    /\ AtBody("compare")
    /\ bodyActs' = Append(bodyActs, "compare")
    /\ buf1' = ZeroBuf
    /\ buf2' = ZeroBuf
    /\ cursor' = 0
    /\ n1' = 0
    /\ err' = "nil"
    /\ eof1' = FALSE
    /\ zeroReads' = 0
    /\ pc' = "cmpRead1"
    /\ UNCHANGED <<opts, i, o, heap, call, sent, resp, hdrTodo, errors, fatals, r1,
                   r2, target, captured, checks, closed>>

\* got, err := io.ReadAll(resp.Body); got = bytes.TrimSpace(got);
\* want, err := json.Marshal(o.expectedJSONResponse); if !bytes.Equal(got, want)
JSONBody ==
    /\ AtBody("json")
    /\ bodyActs' = Append(bodyActs, "json")
    /\ \E all \in ReadAll(r1) :
        LET got  == TrimSpace(all.data)
            want == JSONMarshal(o.expectedJSONResponse)
        IN  /\ r1' = [r1 EXCEPT !.pos = all.pos]
            /\ IF all.err # Nil
               THEN Fatal(<<"io.ReadAll", all.err>>) /\ pc' = "fatal" /\ UNCHANGED errors
               ELSE IF want.err # Nil
               THEN Fatal(<<"json.Marshal", want.err>>) /\ pc' = "fatal" /\ UNCHANGED errors
               ELSE /\ IF got # want.data
                       THEN Errorf(<<"json", got, want.data>>)
                       ELSE UNCHANGED errors
                    /\ pc' = "done"
                    /\ UNCHANGED fatals
    /\ closed' = TRUE
    /\ UNCHANGED <<opts, i, o, heap, call, sent, resp, hdrTodo, r2, cmpVars, target,
                   captured, checks>>

\* json.NewDecoder(resp.Body).Decode(&o.unmarshalResponse)
DecodeBody ==
    /\ AtBody("decode")
    /\ bodyActs' = Append(bodyActs, "decode")
    /\ \E all \in ReadAll(r1) :
        LET dec == JSONDecode(all.data)
        IN  /\ r1' = [r1 EXCEPT !.pos = all.pos]
            /\ IF all.err # Nil
               THEN Fatal(<<"Decode", all.err>>) /\ pc' = "fatal" /\ UNCHANGED target
               ELSE IF dec.err # Nil
               THEN Fatal(<<"Decode", dec.err>>) /\ pc' = "fatal" /\ UNCHANGED target
               ELSE target' = dec.value /\ pc' = "done" /\ UNCHANGED fatals
    /\ closed' = TRUE
    /\ UNCHANGED <<opts, i, o, heap, call, sent, resp, hdrTodo, errors, r2, cmpVars,
                   captured, checks>>

\* got, err := io.ReadAll(resp.Body); *o.responseBody = got
CaptureBody ==
    /\ AtBody("capture")
    /\ bodyActs' = Append(bodyActs, "capture")
    /\ \E all \in ReadAll(r1) :
        /\ r1' = [r1 EXCEPT !.pos = all.pos]
        /\ IF all.err # Nil
           THEN Fatal(<<"io.ReadAll", all.err>>) /\ pc' = "fatal" /\ UNCHANGED captured
           ELSE captured' = all.data /\ pc' = "done" /\ UNCHANGED fatals
    /\ closed' = TRUE
    /\ UNCHANGED <<opts, i, o, heap, call, sent, resp, hdrTodo, errors, r2, cmpVars,
                   target, checks>>

\* got, err := io.ReadAll(resp.Body); if len(got) > 0 { t.Errorf(...) }
EmptyBody ==
    /\ AtBody("empty")
    /\ bodyActs' = Append(bodyActs, "empty")
    /\ \E all \in ReadAll(r1) :
        /\ r1' = [r1 EXCEPT !.pos = all.pos]
        /\ IF all.err # Nil
           THEN Fatal(<<"io.ReadAll", all.err>>) /\ pc' = "fatal" /\ UNCHANGED errors
           ELSE /\ IF Len(all.data) > 0
                   THEN Errorf(<<"body", all.data>>)
                   ELSE UNCHANGED errors
                /\ pc' = "done"
                /\ UNCHANGED fatals
    /\ closed' = TRUE
    /\ UNCHANGED <<opts, i, o, heap, call, sent, resp, hdrTodo, r2, cmpVars, target,
                   captured, checks>>

\* no body option is configured: Request returns after the header loop
NoBodyCheck ==
    /\ AtBody("none")
    /\ pc' = "done"
    /\ closed' = TRUE
    /\ UNCHANGED <<opts, i, o, heap, call, sent, resp, hdrTodo, errors, fatals, r1,
                   r2, cmpVars, target, captured, checks, bodyActs>>

(***************************************************************************)
(* The tests of the model: the option lists a caller passes.               *)
(***************************************************************************)
\* longest option list of mixed options
MaxOpts == 3
\* longest list of request-header options
MaxHdrOpts == 3
\* Request invocations with the same Option values
MaxCalls == 2

\* the header map of the caller that WithRequestHeaders("H1") passes
CallerHeader == "K2" :> <<"two">>

Options ==
    {WithContext("canceled"), WithContext("live"),
     WithJSONRequestBody("bad"), WithJSONRequestBody("va"),
     ExpectStatus(200), ExpectStatus(0),
     ExpectResponseHeader("K1", "x"), ExpectResponseHeader("k1", "y"),
     ExpectResponseHeader("K2", "x"),
     ExpectedResponse("R2"), ExpectedJSONResponse("va"), ExpectedJSONResponse(Nil),
     ExpectNoResponseBody}

BodyOptions ==
    {ExpectedResponse("R2"), ExpectedJSONResponse("va"), UnmarshalJSONResponse("T"),
     PutResponseBody("B"), ExpectNoResponseBody}

HeaderOptions ==
    {WithRequestHeaders("H1"), WithRequestHeaders(Nil),
     WithRequestHeader("K1", "x"), WithRequestHeader("k1", "y"),
     WithRequestHeader("K2", "x"),
     WithMultipartRequest("raw", 1, "Test.jpg"), WithMultipartRequest("failing", 0, ""),
     WithRequestBody("raw")}

\* every arrangement of every subset of the five body options
Arrangements(S) ==
    {s \in SeqsUpTo(S, Cardinality(S)) : \A j, k \in 1..Len(s) : s[j] = s[k] => j = k}

OptionLists == SeqsUpTo(Options, MaxOpts) \cup Arrangements(BodyOptions)

\* the contents of the reader a test passes to ExpectedResponse
ExpectedStreams == {<<"a">>, <<"b", "a">>}

Uses(list, kind) == \E j \in 1..Len(list) : list[j].kind = kind

\* the state as Request is entered
Entered(list, expected) ==
    /\ opts = list
    /\ i = 1
    /\ o = NewOptions
    /\ heap = [H1 |-> CallerHeader, M |-> EmptyHeader]
    /\ pc = "opts"
    /\ call = 1
    /\ sent = <<>>
    /\ resp = NoResponse
    /\ hdrTodo = {}
    /\ errors = <<>>
    /\ fatals = <<>>
    /\ r1 = Reader(<<>>)
    /\ r2 = Reader(expected)
    /\ buf1 = ZeroBuf
    /\ buf2 = ZeroBuf
    /\ n1 = 0
    /\ err = "nil"
    /\ eof1 = FALSE
    /\ cursor = 0
    /\ zeroReads = 0
    /\ target = Nil
    /\ captured = <<"0">>
    /\ checks = {}
    /\ bodyActs = <<>>
    /\ closed = FALSE

Init ==
    \E list \in OptionLists :
        \E expected \in (IF Uses(list, "ExpectedResponse") THEN ExpectedStreams ELSE {<<>>}) :
            Entered(list, expected)

Next ==
    \/ ApplyOption
    \/ NewRequest
    \/ Do
    \/ CheckStatus
    \/ CheckHeader
    \/ CompareBody
    \/ JSONBody
    \/ DecodeBody
    \/ CaptureBody
    \/ EmptyBody
    \/ NoBodyCheck
    \/ ReadActual
    \/ ReadExpected
    \/ CompareChunks

Spec == Init /\ [][Next]_vars

(***************************************************************************)
(* Request called MaxCalls times with the same Option values, for the      *)
(* request-header options.                                                 *)
(***************************************************************************)
\* the test calls Request again: a new testing.TB, the same opts; what the
\* caller owns (its header map, its readers, its targets) is as the last
\* call left it
RequestAgain ==
    /\ pc \in {"done", "fatal"}
    /\ call < MaxCalls
    /\ call' = call + 1
    /\ i' = 1
    /\ o' = NewOptions
    /\ pc' = "opts"
    /\ resp' = NoResponse
    /\ hdrTodo' = {}
    /\ errors' = <<>>
    /\ fatals' = <<>>
    /\ r1' = Reader(<<>>)
    /\ checks' = {}
    /\ bodyActs' = <<>>
    /\ closed' = FALSE
    /\ UNCHANGED <<opts, heap, sent, r2, cmpVars, target, captured>>

InitHeaders == \E list \in SeqsUpTo(HeaderOptions, MaxHdrOpts) : Entered(list, <<>>)

NextHeaders ==
    \/ ApplyOption
    \/ NewRequest
    \/ Do
    \/ CheckStatus
    \/ NoBodyCheck
    \/ RequestAgain

SpecHeaders == InitHeaders /\ [][NextHeaders]_vars

(***************************************************************************)
(* readerContentEqual on its own: Request has entered it with any two      *)
(* streams of at most MaxLen bytes.                                        *)
(***************************************************************************)
StreamBytes == {"a", "b"}

InitCmp ==
    \E d1, d2 \in SeqsUpTo(StreamBytes, MaxLen) :
        /\ opts = <<ExpectedResponse("R2")>>
        /\ i = 2
        /\ o = [NewOptions EXCEPT !.expectedResponse = "R2"]
        /\ heap = [H1 |-> CallerHeader, M |-> EmptyHeader]
        /\ pc = "cmpRead1"
        /\ call = 1
        /\ sent = <<RequestOf(NewOptions, heap)>>
        /\ resp = [status |-> 200, header |-> EmptyHeader]
        /\ hdrTodo = {}
        /\ errors = <<>>
        /\ fatals = <<>>
        /\ r1 = Reader(d1)
        /\ r2 = Reader(d2)
        /\ buf1 = ZeroBuf
        /\ buf2 = ZeroBuf
        /\ n1 = 0
        /\ err = "nil"
        /\ eof1 = FALSE
        /\ cursor = 0
        /\ zeroReads = 0
        /\ target = Nil
        /\ captured = <<"0">>
        /\ checks = {}
        /\ bodyActs = <<"compare">>
        /\ closed = FALSE

NextCmp ==
    \/ ReadActual
    \/ ReadExpected
    \/ CompareChunks

SpecCmp == InitCmp /\ [][NextCmp]_vars

\* readerContentEqual runs on the goroutine of the test, which executes one
\* statement after the other: a statement that can run does run.  Which
\* result a Read returns stays the reader's choice.
FairCmp ==
    /\ WF_vars(ReadActual)
    /\ WF_vars(ReadExpected)
    /\ WF_vars(CompareChunks)

SpecCmpFair == InitCmp /\ [][NextCmp]_vars /\ FairCmp

(***************************************************************************)
(* Properties.                                                             *)
(***************************************************************************)
Last(s) == s[Len(s)]

Kinds(reports) == {reports[k][1] : k \in 1..Len(reports)}

\* options whose closure returns an error
OptionFails(opt) ==
    \/ opt.kind = "WithJSONRequestBody" /\ opt.val = "bad"
    \/ opt.kind = "WithMultipartRequest" /\ opt.val = "failing"

FailingOptions == {j \in 1..Len(opts) : OptionFails(opts[j])}

\* the configuration that applying a list of options, first to last, to
\* new(options) gives
RECURSIVE ConfigAfter(_)
ConfigAfter(list) ==
    IF list = <<>> THEN NewOptions
    ELSE apply(Last(list), ConfigAfter(SubSeq(list, 1, Len(list) - 1)), heap, "bnd1").o

\* Request has got past the header loop: it is in a body check or has
\* returned, or a body check has ended it with t.Fatal
BodyStage ==
    \/ pc \in {"cmpRead1", "cmpRead2", "cmpCompare", "done"}
    \/ /\ pc = "fatal"
       /\ Kinds(fatals) \subseteq {"io.ReadAll", "json.Marshal", "Decode",
                                   "read input data", "read validation data"}

\* C1: Request applies the options in argument order to one fresh
\* configuration; at the first option whose apply returns an error one fatal
\* error is reported, no later option is applied, client.Do is never reached
\* and no status, header or body check runs.
C1_OptionsInOrder ==
    /\ i \in 1..(Len(opts) + 1)
    /\ o = ConfigAfter(SubSeq(opts, 1, i - 1))
    /\ \A j \in FailingOptions : i <= j
    /\ FailingOptions # {} =>
          /\ pc \in {"opts", "fatal"}
          /\ sent = <<>>
          /\ errors = <<>>
          /\ checks = {}
          /\ bodyActs = <<>>
    /\ pc = "fatal" => Len(fatals) = 1
    /\ (pc = "fatal" /\ fatals[1][1] = "option") => i \in FailingOptions

C1_Witness ==
    /\ pc = "fatal"
    /\ fatals[1][1] = "option"
    /\ Len(opts) = 3
    /\ i = 2
    /\ o.responseCode = 200
    /\ opts[3].kind = "ExpectNoResponseBody"
    /\ ~o.noResponseBody

\* C2: when client.Do fails (the context of WithContext was canceled before
\* the call, or any transport error) Request reports exactly one fatal error
\* and no non-fatal one, and runs no status, header or body check, whatever
\* expectations are configured.
C2_TransportFailureIsFatal ==
    /\ (Len(sent) = call /\ o.ctx = "canceled") =>
          /\ pc = "fatal"
          /\ fatals = << <<"client.Do", "context canceled">> >>
    /\ "client.Do" \in Kinds(fatals) =>
          /\ pc = "fatal"
          /\ Len(fatals) = 1
          /\ errors = <<>>
          /\ checks = {}
          /\ bodyActs = <<>>
          /\ hdrTodo = {}
          /\ r1.pos = 0
          /\ r2.pos = 0
          /\ target = Nil
          /\ captured = <<"0">>

C2_Witness ==
    /\ fatals = << <<"client.Do", "context canceled">> >>
    /\ o.responseCode = 200
    /\ DOMAIN o.responseHeaders # {}
    /\ Len(opts) = 3

\* the option that configures each body check, and whether a list of
\* options leaves it configured: the last option of the kind has an argument
\* that is not nil
Precedence == <<"compare", "json", "decode", "capture", "empty">>

OptionOf(check) ==
    CASE check = "compare" -> "ExpectedResponse"
      [] check = "json"    -> "ExpectedJSONResponse"
      [] check = "decode"  -> "UnmarshalJSONResponse"
      [] check = "capture" -> "PutResponseBody"
      [] check = "empty"   -> "ExpectNoResponseBody"

ConfiguredBy(list, check) ==
    LET at == {j \in 1..Len(list) : list[j].kind = OptionOf(check)}
    IN  /\ at # {}
        /\ \A j \in at : (\A k \in at : k <= j) => list[j].val # Nil

SelectedBy(list) ==
    LET set == {k \in 1..Len(Precedence) : ConfiguredBy(list, Precedence[k])}
    IN  IF set = {} THEN <<>>
        ELSE <<Precedence[CHOOSE k \in set : \A m \in set : k <= m]>>

\* C3: for every combination of the five body options, in any argument
\* order, Request performs at most one body action, the configured one that
\* is first in the order compare, JSON equality, decode, capture, empty; the
\* other configured options read nothing and write nothing to their targets.
C3_OneBodyAction ==
    /\ Len(bodyActs) <= 1
    /\ bodyActs = IF BodyStage THEN SelectedBy(opts) ELSE <<>>
    /\ bodyActs = <<>> => r1.pos = 0
    /\ bodyActs # <<"compare">> => (r2.pos = 0 /\ "data not equal" \notin Kinds(errors))
    /\ bodyActs # <<"json">> => "json" \notin Kinds(errors)
    /\ bodyActs # <<"decode">> => target = Nil
    /\ bodyActs # <<"capture">> => captured = <<"0">>
    /\ bodyActs # <<"empty">> => "body" \notin Kinds(errors)

C3_Witness ==
    /\ pc = "done"
    /\ Len(opts) = 5
    /\ opts[1].kind = "ExpectNoResponseBody"
    /\ opts[2].kind = "PutResponseBody"
    /\ opts[5].kind = "ExpectedResponse"
    /\ bodyActs = <<"compare">>
    /\ r1.pos > 0
    /\ captured = <<"0">>
    /\ target = Nil

\* the expectations a list of options configures
ExpectedCode(list) ==
    LET at == {j \in 1..Len(list) : list[j].kind = "ExpectStatus"}
    IN  IF at = {} THEN 0 ELSE list[CHOOSE j \in at : \A k \in at : k <= j].code

ExpectedKeys(list) ==
    {CanonicalKey(list[j].key) : j \in {k \in 1..Len(list) : list[k].kind = "ExpectResponseHeader"}}

Reports(kind) == {k \in 1..Len(errors) : errors[k][1] = kind}

HeaderReports(key) == {k \in Reports("header") : errors[k][2] = key}

\* C4: a status mismatch and a header mismatch are non-fatal: once Request
\* is past the header loop the status (when configured non-zero) and every
\* expected header key have been compared and the selected body check has
\* been entered, whatever mismatches were reported, and each failing
\* expectation has its own report.
C4_MismatchesAreNonFatal ==
    /\ Kinds(fatals) \cap {"status", "header"} = {}
    /\ BodyStage =>
          /\ ExpectedCode(opts) # 0 => <<"status">> \in checks
          /\ \A key \in ExpectedKeys(opts) : <<"header", key>> \in checks
          /\ bodyActs = SelectedBy(opts)
          /\ Cardinality(Reports("status")) =
                IF ExpectedCode(opts) # 0 /\ resp.status # ExpectedCode(opts) THEN 1 ELSE 0
          /\ \A key \in ExpectedKeys(opts) :
                Cardinality(HeaderReports(key)) =
                    IF HeaderGet(resp.header, key) # WantHeader(o, key) THEN 1 ELSE 0

C4_Witness ==
    /\ pc = "done"
    /\ Len(errors) = 3
    /\ Reports("status") = {1}
    /\ Reports("header") = {2}
    /\ Reports("body") = {3}

\* C5: for every expected key/value pair configured, several pairs under
\* one key included, Request compares the response's value for the key with
\* the expected value and reports an error for the key when they differ; a
\* key whose expectations all match gets no report.
C5_EveryPairCompared ==
    BodyStage =>
        \A j \in 1..Len(opts) :
            opts[j].kind = "ExpectResponseHeader" =>
                LET key == CanonicalKey(opts[j].key)
                    differs(k) == /\ opts[k].kind = "ExpectResponseHeader"
                                  /\ CanonicalKey(opts[k].key) = key
                                  /\ HeaderGet(resp.header, key) # opts[k].val
                IN  /\ differs(j) => HeaderReports(key) # {}
                    /\ (\A k \in 1..Len(opts) : ~differs(k)) => HeaderReports(key) = {}

\* C6: the full-body comparison reports no mismatch whenever the bytes of
\* the expected stream equal the bytes of the response body, however the two
\* readers split them across Read calls (here: even when no Read returns
\* zero bytes without an error).
C6_EqualStreamsPass ==
    (pc = "done" /\ r1.data = r2.data /\ zeroReads = 0) => errors = <<>>

\* the header set a call has accumulated so far
Effective(cfg, hp) == IF cfg.requestHeaders = Nil THEN EmptyHeader ELSE hp[cfg.requestHeaders]

\* the header set after an option, by the fold: cur is the set accumulated
\* before it, hp the header maps when it is applied
FoldStep(opt, cur, hp, next) ==
    CASE opt.kind = "WithRequestHeader" ->
            LET k == CanonicalKey(opt.key)
            IN  /\ DOMAIN next = DOMAIN cur \cup {k}
                /\ next[k] = (IF k \in DOMAIN cur THEN cur[k] ELSE <<>>) \o <<opt.val>>
                /\ \A x \in DOMAIN cur \ {k} : next[x] = cur[x]
      [] opt.kind = "WithRequestHeaders" ->
            next = IF opt.val = Nil THEN EmptyHeader ELSE hp[opt.val]
      [] opt.kind = "WithMultipartRequest" ->
            /\ DOMAIN next = DOMAIN cur \cup {"Content-Type"}
            /\ \E b \in Boundaries : next["Content-Type"] = <<b>>
            /\ \A x \in DOMAIN cur \ {"Content-Type"} : next[x] = cur[x]
      [] OTHER -> next = cur

\* C7: the request header set sent is the left-to-right fold of the header
\* options: WithRequestHeader(key, value) appends value under key and keeps
\* what is accumulated, WithRequestHeaders(h) replaces everything accumulated
\* with h, and the header of the request handed to client.Do is the result.
C7_HeaderFold ==
    [][/\ (pc = "opts" /\ i' = i + 1) =>
            FoldStep(opts[i], Effective(o, heap), heap, Effective(o', heap'))
       /\ (pc = "opts" /\ i = 1) => Effective(o, heap) = EmptyHeader
       /\ sent' # sent =>
            /\ i = Len(opts) + 1
            /\ Last(sent').header = Effective(o, heap)]_vars

C7_Witness ==
    /\ call = 1
    /\ opts = <<WithRequestHeaders("H1"), WithRequestHeader("K1", "x"),
                WithRequestHeader("k1", "y")>>
    /\ Len(sent) = 1
    /\ sent[1].header = ("K2" :> <<"two">>) @@ ("K1" :> <<"x", "y">>)

\* C8: no mutable state is shared across invocations: calling Request twice
\* with the same Option values sends the same request header set both times,
\* and the header map passed to WithRequestHeaders is left unchanged.
C8_NoSharedState ==
    /\ heap["H1"] = CallerHeader
    /\ (Len(sent) = 2 /\ ~Uses(opts, "WithMultipartRequest")) =>
          sent[1].header = sent[2].header

\* C9: the iteration in which the read of the actual stream returns
\* end-of-stream, with equal chunks, is the last one and reports no
\* mismatch, whether or not the expected stream has signalled end-of-stream
\* (here: even when no Read returns zero bytes without an error).
C9_ActualEOFEndsLoop ==
    [][(pc = "cmpCompare" /\ eof1 /\ buf1 = buf2 /\ zeroReads = 0) =>
            (pc' = "done" /\ errors' = errors)]_vars

\* C10 as stated: when one stream is a strict prefix of the other the
\* comparison ends without reporting a mismatch.
C10_PrefixNotDetected ==
    (/\ pc = "done"
     /\ IsStrictPrefix(r1.data, r2.data) \/ IsStrictPrefix(r2.data, r1.data))
        => errors = <<>>

\* C10, amended: a comparison that ends without a mismatch has read the
\* expected stream to its end, the last read of it signalled end-of-stream,
\* and the bytes read from the actual stream equal the expected stream; what
\* the actual stream holds beyond them is unchecked.  So an expected stream
\* that is a strict prefix of the actual one can pass, and an actual stream
\* that is a strict prefix of the expected one never does.
C10_OnlyExpectedEOFEndsLoop ==
    /\ (pc = "done" /\ errors = <<>>) =>
          /\ err = "EOF"
          /\ Unread(r2) = 0
          /\ Consumed(r1) = r2.data
    /\ (pc = "done" /\ IsStrictPrefix(r1.data, r2.data)) => errors # <<>>

C10_Witness ==
    /\ pc = "done"
    /\ errors = <<>>
    /\ IsStrictPrefix(r2.data, r1.data)
    /\ Unread(r1) > 0

\* the bytes the last n-byte Read of r took from the stream
LastChunk(r, n) == SubSeq(r.data, r.pos - n + 1, r.pos)

\* C11: in readerContentEqual the cursor at the start of every iteration is
\* the sum of the byte counts the earlier reads of the actual stream
\* returned; the position in a mismatch report and in a fatal read-error
\* report is the number of bytes of the actual stream consumed before the
\* chunk of that iteration; the first unequal pair of chunks gives exactly
\* one non-fatal report, made of that position and the two chunks, and
\* neither stream is read after it.
C11_CursorIsBytesConsumed ==
    /\ pc = "cmpRead1" => cursor = r1.pos
    /\ pc \in {"cmpRead2", "cmpCompare"} => cursor = r1.pos - n1
    /\ pc = "fatal" =>
          /\ errors = <<>>
          /\ Len(fatals) = 1
          /\ fatals[1][1] \in {"read input data", "read validation data"}
          /\ fatals[1][2] = r1.pos - n1
    /\ pc # "fatal" => fatals = <<>>
    /\ pc # "done" => errors = <<>>
    /\ pc = "done" =>
          /\ (errors = <<>>) = (buf1 = buf2)
          /\ errors # <<>> =>
                errors = << <<"data not equal", r1.pos - n1,
                              LastChunk(r1, n1), LastChunk(r2, Len(buf2))>> >>

\* a mismatch found after two short reads of the actual stream, with bytes
\* of both streams still unread
C11_Witness ==
    /\ pc = "done"
    /\ Len(errors) = 1
    /\ errors[1][2] = 2
    /\ r1.pos = 3
    /\ r2.pos < Len(r2.data)

\* readerContentEqual has returned, or t.Fatalf has ended it
Returned == pc \in {"done", "fatal"}

\* C12: readerContentEqual eventually returns for every pair of finite
\* streams, also when the readers return short reads or zero bytes without
\* an error: shrinking the buffers to the bytes just read never leaves the
\* loop reading forever.
C12_ComparatorReturns == <>Returned

====
